---- MODULE Spec2Model ----
(***************************************************************************)
(* State-machine model of the Bloom filter engine of fastbloom-rs          *)
(* (fastbloom-rs/src/filter.rs).  Two filters "A" and "B" live side by     *)
(* side; "A" plays `self` and "B" plays `other` in the set algebra, and    *)
(* the operations that unset or replace bits are applied to "A".           *)
(*                                                                         *)
(* A BitVec is modelled by the sequence of its bits: bit i of the Rust     *)
(* vector (0-based) is element i+1 of the sequence, and len() is Len.      *)
(* A panic is modelled as an outcome of the operation: the operation       *)
(* stops where the Rust code stops, the mutations made before that point   *)
(* stay, and the result recorded in ret is "panic".                        *)
(*                                                                         *)
(* murmur3_x64_128 is an external hash.  It is modelled as an arbitrary    *)
(* function fixed in the initial state, from (element, seed) to a digest   *)
(* below HashBound, so every property is checked for every such function.  *)
(***************************************************************************)
EXTENDS Integers, Sequences, FiniteSets, TLC

\* ---- bounds of the model ------------------------------------------------
HashBound == 2

\* ---- program constants --------------------------------------------------
\* Width of a storage block of BitVec (BitVec<u32>).
BlockBits == 32

\* The byte strings handed to add and contains.
Elements == {"x", "y"}
Seeds == {0, 32}
\* The completed FilterBuilders handed to BloomFilter::new: a size that is no
\* multiple of a byte, a size of one storage block, and hash counts that give
\* no pass and two passes of the loop `for i in 1..k`.
Builders ==
    {[size |-> 3, hashes |-> 3], [size |-> 32, hashes |-> 3], [size |-> 32, hashes |-> 1]}
FilterIds == {"A", "B"}

VARIABLES
    murmur3_x64_128,  \* the hash: [Elements \X Seeds -> 0..HashBound-1]
    filter,           \* filter[f] = [config |-> [size, hashes], bit_set |-> bits]
    rebuilt,          \* the filter G a reconstruction just returned, or NoFilter
    op,               \* name of the last operation
    ret,              \* its result: "unit", "true", "false", "panic"
    added,            \* added[f]: elements whose add completed on f since f
                      \*   was built or last subjected to clear, set,
                      \*   intersect or set_bit_vec
    lossless,         \* the last operation was a union of two filters that
                      \*   each held exactly what their adds put there
    merged,           \* the elements added to either operand of that union
    both              \* the elements added to both operands of the
                      \*   intersect that was the last operation

vars == <<murmur3_x64_128, filter, rebuilt, op, ret, added, lossless, merged, both>>

NoFilter == [config |-> [size |-> 0, hashes |-> 0], bit_set |-> <<>>, none |-> TRUE]

\* ---- BitVec (crate bit_vec) ---------------------------------------------
from_elem(nbits, bit) == [i \in 1..nbits |-> bit]

blocks_for_bits(nbits) ==
    IF nbits % BlockBits = 0 THEN nbits \div BlockBits
    ELSE nbits \div BlockBits + 1

Pow2(n) == CHOOSE p \in {1, 2, 4, 8, 16, 32, 64, 128} : p = 2^n

\* BitVec::to_bytes: ceil(len/8) bytes, bit i in byte i/8, MSB first.
ByteAt(bv, j) ==
    LET w(t) == IF 8*j + t < Len(bv) /\ bv[8*j + t + 1] THEN Pow2(7 - t) ELSE 0
    IN w(0) + w(1) + w(2) + w(3) + w(4) + w(5) + w(6) + w(7)

to_bytes(bv) ==
    LET nbytes == IF Len(bv) % 8 = 0 THEN Len(bv) \div 8 ELSE Len(bv) \div 8 + 1
    IN [j \in 1..nbytes |-> ByteAt(bv, j - 1)]

\* BitVec::from_bytes: 8 bits per byte, MSB first.
from_bytes(bytes) ==
    [i \in 1..(8 * Len(bytes)) |->
        (bytes[((i - 1) \div 8) + 1] \div Pow2(7 - ((i - 1) % 8))) % 2 = 1]

\* BitVec::or / BitVec::and panic unless both vectors have the same length.
bv_or(a, b) == [i \in 1..Len(a) |-> a[i] \/ b[i]]
\* BitVec::difference, under the same condition.
bv_difference(a, b) == [i \in 1..Len(a) |-> a[i] /\ ~b[i]]
bv_and(a, b) == [i \in 1..Len(a) |-> a[i] /\ b[i]]

\* ---- FilterBuilder (crate::builder) -------------------------------------
from_size_and_hashes(size, hashes) == [size |-> size, hashes |-> hashes]

\* complete() leaves an explicitly given size and hash count as they are.
complete(config) == [size |-> config.size, hashes |-> config.hashes]

is_compatible_to(c1, c2) == c1.size = c2.size /\ c1.hashes = c2.hashes

\* ---- filter.rs: bit_set / bit_check -------------------------------------
\* hash1 + i * hash2 is computed in u64.  hash1 and hash2 are below m and i is
\* below k, and the sizes and hash counts of the model keep the sum far below
\* 2^64, so the sum is computed exactly.  A modulus m = 0 panics, as does an
\* index at or beyond the length of the bit vector.
RECURSIVE bit_set_loop(_, _, _, _, _, _)
bit_set_loop(bv, hash1, hash2, m, k, i) ==
    IF i >= k THEN [bits |-> bv, panic |-> FALSE]
    ELSE LET mo == (hash1 + i * hash2) % m
         IN IF mo >= Len(bv) THEN [bits |-> bv, panic |-> TRUE]
            ELSE bit_set_loop([bv EXCEPT ![mo + 1] = TRUE], hash1, hash2, m, k, i + 1)

\* Faulty variant: the bit at hash1 is never set.
bit_set_no_hash1(bv, value, m, k) ==
    IF m = 0 THEN [bits |-> bv, panic |-> TRUE]
    ELSE LET hash1 == murmur3_x64_128[<<value, 0>>] % m
             hash2 == murmur3_x64_128[<<value, 32>>] % m
         IN bit_set_loop(bv, hash1, hash2, m, k, 1)

\* Faulty variant: the bit at hash1 is inverted instead of set.
bit_set_flipping_hash1(bv, value, m, k) ==
    IF m = 0 THEN [bits |-> bv, panic |-> TRUE]
    ELSE LET hash1 == murmur3_x64_128[<<value, 0>>] % m
             hash2 == murmur3_x64_128[<<value, 32>>] % m
             r == bit_set_loop(bv, hash1, hash2, m, k, 1)
         IN IF r.panic THEN r
            ELSE IF hash1 >= Len(r.bits) THEN [bits |-> r.bits, panic |-> TRUE]
            ELSE [bits |-> [r.bits EXCEPT ![hash1 + 1] = ~@], panic |-> FALSE]

bit_set(bv, value, m, k) ==
    IF m = 0 THEN [bits |-> bv, panic |-> TRUE]
    ELSE LET hash1 == murmur3_x64_128[<<value, 0>>] % m
             hash2 == murmur3_x64_128[<<value, 32>>] % m
             r == bit_set_loop(bv, hash1, hash2, m, k, 1)
         IN IF r.panic THEN r
            ELSE IF hash1 >= Len(r.bits) THEN [bits |-> r.bits, panic |-> TRUE]
            ELSE [bits |-> [r.bits EXCEPT ![hash1 + 1] = TRUE], panic |-> FALSE]

RECURSIVE bit_check_loop(_, _, _, _, _, _, _)
bit_check_loop(bv, hash1, hash2, m, k, i, res) ==
    IF i >= k THEN (IF res THEN "true" ELSE "false")
    ELSE IF ~res THEN "false"
    ELSE LET mo == (hash1 + i * hash2) % m
         IN IF mo >= Len(bv) THEN "panic"
            ELSE bit_check_loop(bv, hash1, hash2, m, k, i + 1, res /\ bv[mo + 1])

bit_check(bv, value, m, k) ==
    IF m = 0 THEN "panic"
    ELSE LET hash1 == murmur3_x64_128[<<value, 0>>] % m
             hash2 == murmur3_x64_128[<<value, 32>>] % m
         IN IF hash1 >= Len(bv) THEN "panic"
            ELSE bit_check_loop(bv, hash1, hash2, m, k, 1, bv[hash1 + 1])

\* ---- filter.rs: BloomFilter, pure parts ---------------------------------
new(config) ==
    LET c == complete(config)
    IN [config |-> c, bit_set |-> from_elem(c.size, FALSE)]

from_bit_vec(bit_vec, hashes) ==
    [config |-> complete(from_size_and_hashes(Len(bit_vec), hashes)),
     bit_set |-> bit_vec]

from_u8_array(array, hashes) ==
    [config |-> complete(from_size_and_hashes(Len(array) * 8, hashes)),
     bit_set |-> from_bytes(array)]

\* Every mutator yields the filter it leaves behind and its result.
add(self, element) ==
    LET r == bit_set(self.bit_set, element, self.config.size, self.config.hashes)
    IN [self |-> [self EXCEPT !.bit_set = r.bits],
        ret |-> IF r.panic THEN "panic" ELSE "unit"]

\* Faulty variant: clear empties the vector, as Vec::clear does.
clear_truncating(self) ==
    [self |-> [self EXCEPT !.bit_set = <<>>], ret |-> "unit"]

\* BitVec::clear sets every bit to false and keeps the length.
clear(self) ==
    [self |-> [self EXCEPT !.bit_set = [i \in 1..Len(@) |-> FALSE]],
     ret |-> "unit"]

contains(self, element) ==
    bit_check(self.bit_set, element, self.config.size, self.config.hashes)

\* BitVec::get is None when index >= len; the result is an Option<bool>.
get(self, index) ==
    IF index < Len(self.bit_set)
    THEN (IF self.bit_set[index + 1] THEN "Some(true)" ELSE "Some(false)")
    ELSE "None"

\* BitVec::set panics when index >= len.
set(self, index, to) ==
    IF index < Len(self.bit_set)
    THEN [self |-> [self EXCEPT !.bit_set[index + 1] = to], ret |-> "unit"]
    ELSE [self |-> self, ret |-> "panic"]

get_bit_vec(self) == self.bit_set

get_u8_array(self) == to_bytes(self.bit_set)

compatible(self, other) == is_compatible_to(self.config, other.config)

\* Faulty variant: union takes over the bits of the other filter.
union_replacing(self, other) ==
    IF compatible(self, other)
    THEN IF Len(self.bit_set) = Len(other.bit_set)
         THEN [self |-> [self EXCEPT !.bit_set = other.bit_set], ret |-> "true"]
         ELSE [self |-> self, ret |-> "panic"]
    ELSE [self |-> self, ret |-> "false"]

\* Faulty variant: union calls BitVec::and.
union_with_and(self, other) ==
    IF compatible(self, other)
    THEN IF Len(self.bit_set) = Len(other.bit_set)
         THEN [self |-> [self EXCEPT !.bit_set = bv_and(@, other.bit_set)],
               ret |-> "true"]
         ELSE [self |-> self, ret |-> "panic"]
    ELSE [self |-> self, ret |-> "false"]

union(self, other) ==
    IF compatible(self, other)
    THEN IF Len(self.bit_set) = Len(other.bit_set)
         THEN [self |-> [self EXCEPT !.bit_set = bv_or(@, other.bit_set)],
               ret |-> "true"]
         ELSE [self |-> self, ret |-> "panic"]
    ELSE [self |-> self, ret |-> "false"]

\* Faulty variants: intersect calls BitVec::difference, or BitVec::or.
intersect_with_difference(self, other) ==
    IF compatible(self, other)
    THEN IF Len(self.bit_set) = Len(other.bit_set)
         THEN [self |-> [self EXCEPT !.bit_set = bv_difference(@, other.bit_set)],
               ret |-> "true"]
         ELSE [self |-> self, ret |-> "panic"]
    ELSE [self |-> self, ret |-> "false"]

intersect_with_or(self, other) ==
    IF compatible(self, other)
    THEN IF Len(self.bit_set) = Len(other.bit_set)
         THEN [self |-> [self EXCEPT !.bit_set = bv_or(@, other.bit_set)],
               ret |-> "true"]
         ELSE [self |-> self, ret |-> "panic"]
    ELSE [self |-> self, ret |-> "false"]

intersect(self, other) ==
    IF compatible(self, other)
    THEN IF Len(self.bit_set) = Len(other.bit_set)
         THEN [self |-> [self EXCEPT !.bit_set = bv_and(@, other.bit_set)],
               ret |-> "true"]
         ELSE [self |-> self, ret |-> "panic"]
    ELSE [self |-> self, ret |-> "false"]

\* BitVec::is_empty is `self.nbits == 0`: true for a vector of length 0.
is_empty(self) == Len(self.bit_set) = 0

\* bit_vec is [bits, capacity]; capacity() is the allocated storage in bits.
set_bit_vec(self, bit_vec) ==
    IF self.config.size = bit_vec.capacity
    THEN [self |-> [self EXCEPT !.bit_set = bit_vec.bits], ret |-> "unit"]
    ELSE [self |-> self, ret |-> "panic"]

\* ---- inputs ------------------------------------------------------------
\* Indexes handed to set: one inside every filter, one outside every filter.
SetIndexes == {1, 40}
\* Indexes handed to get: one inside every filter with bits, and one outside the
\* filters of size 3 and inside those of size 32.
GetIndexes == {1, 5}
\* Vectors handed to set_bit_vec, as [bits, capacity]: BitVec::from_elem(3, false)
\* and BitVec::from_elem(32, true), which allocate exactly the blocks in use.
BitVecInputs ==
    {[bits |-> from_elem(3, FALSE), capacity |-> blocks_for_bits(3) * BlockBits],
     [bits |-> from_elem(32, TRUE), capacity |-> blocks_for_bits(32) * BlockBits]}

\* Byte arrays handed to from_u8_array: none, one and two bytes.
ByteArrays == {<< >>, <<165>>, <<1, 128>>}
HashCounts == {c.hashes : c \in Builders}

\* The filters a program starts from: built by new from a completed builder,
\* or by from_u8_array / from_bit_vec from an input without bits.
Constructed ==
    {new(c) : c \in Builders}
        \cup {from_u8_array(<< >>, k) : k \in HashCounts}
        \cup {from_bit_vec(from_elem(0, FALSE), k) : k \in HashCounts}

\* The builders of `other`, given the configuration of `self`: the same one,
\* which gives a compatible filter, and that of size 32 and 3 hashes, which
\* differs from the other two builders in the size only and in the hashes only.
OtherBuilders(config) == ({config} \cap Builders) \cup {[size |-> 32, hashes |-> 3]}

\* ---- initial state ------------------------------------------------------
\* The operations treat "x" and "y" alike, so the digests of "x" are taken to
\* come first in the order of Digests: the other hash functions give the same
\* behaviours with the two names exchanged.
Digests(h, e) == h[<<e, 0>>] * HashBound + h[<<e, 32>>]

Init ==
    /\ murmur3_x64_128 \in [Elements \X Seeds -> 0..(HashBound - 1)]
    /\ Digests(murmur3_x64_128, "x") <= Digests(murmur3_x64_128, "y")
    /\ \E a \in Constructed :
          \E cb \in OtherBuilders(a.config) :
             filter = [f \in FilterIds |-> IF f = "A" THEN a ELSE new(cb)]
    /\ rebuilt = NoFilter
    /\ op = "new"
    /\ ret = "unit"
    /\ added = [f \in FilterIds |-> {}]
    /\ lossless = FALSE
    /\ merged = {}
    /\ both = {}

\* ---- operations ---------------------------------------------------------
\* The filter obtained from `self` by adding every element of S.
RECURSIVE AddAll(_, _)
AddAll(self, S) ==
    IF S = {} THEN self
    ELSE LET e == CHOOSE x \in S : TRUE
         IN AddAll(add(self, e).self, S \ {e})

\* f holds exactly the bits that its completed adds put into an empty filter.
OnlyAdds(f) ==
    filter[f].bit_set = AddAll(new(filter[f].config), added[f]).bit_set

\* The operation returns no rebuilt filter and is no union or intersect.
NoScratch == rebuilt' = NoFilter /\ lossless' = FALSE /\ merged' = {} /\ both' = {}

Add(f, element) ==
    LET r == add(filter[f], element)
    IN /\ filter' = [filter EXCEPT ![f] = r.self]
       /\ op' = "add"
       /\ ret' = r.ret
       /\ added' = IF r.ret = "unit" THEN [added EXCEPT ![f] = @ \cup {element}]
                   ELSE added
       /\ NoScratch
       /\ UNCHANGED murmur3_x64_128

Contains(f, element) ==
    /\ op' = "contains"
    /\ ret' = contains(filter[f], element)
    /\ NoScratch
    /\ UNCHANGED <<murmur3_x64_128, filter, added>>

Clear(f) ==
    LET r == clear(filter[f])
    IN /\ filter' = [filter EXCEPT ![f] = r.self]
       /\ op' = "clear"
       /\ ret' = r.ret
       /\ added' = [added EXCEPT ![f] = {}]
       /\ NoScratch
       /\ UNCHANGED murmur3_x64_128

Set(f, index, to) ==
    LET r == set(filter[f], index, to)
    IN /\ filter' = [filter EXCEPT ![f] = r.self]
       /\ op' = "set"
       /\ ret' = r.ret
       /\ added' = IF r.ret = "unit" THEN [added EXCEPT ![f] = {}] ELSE added
       /\ NoScratch
       /\ UNCHANGED murmur3_x64_128

Union(f, g) ==
    LET r == union(filter[f], filter[g])
    IN /\ filter' = [filter EXCEPT ![f] = r.self]
       /\ op' = "union"
       /\ ret' = r.ret
       /\ lossless' = (r.ret = "true" /\ OnlyAdds(f) /\ OnlyAdds(g))
       /\ merged' = IF lossless' THEN added[f] \cup added[g] ELSE {}
       /\ rebuilt' = NoFilter
       /\ both' = {}
       /\ UNCHANGED <<murmur3_x64_128, added>>

Intersect(f, g) ==
    LET r == intersect(filter[f], filter[g])
    IN /\ filter' = [filter EXCEPT ![f] = r.self]
       /\ op' = "intersect"
       /\ ret' = r.ret
       /\ added' = IF r.ret = "true" THEN [added EXCEPT ![f] = {}] ELSE added
       /\ both' = IF r.ret = "true" THEN added[f] \cap added[g] ELSE {}
       /\ rebuilt' = NoFilter
       /\ lossless' = FALSE
       /\ merged' = {}
       /\ UNCHANGED murmur3_x64_128

SetBitVec(f, bit_vec) ==
    LET r == set_bit_vec(filter[f], bit_vec)
    IN /\ filter' = [filter EXCEPT ![f] = r.self]
       /\ op' = "set_bit_vec"
       /\ ret' = r.ret
       /\ added' = IF r.ret = "unit" THEN [added EXCEPT ![f] = {}] ELSE added
       /\ NoScratch
       /\ UNCHANGED murmur3_x64_128

Get(f, index) ==
    /\ op' = "get"
    /\ ret' = get(filter[f], index)
    /\ NoScratch
    /\ UNCHANGED <<murmur3_x64_128, filter, added>>

IsEmpty(f) ==
    /\ op' = "is_empty"
    /\ ret' = IF is_empty(filter[f]) THEN "true" ELSE "false"
    /\ NoScratch
    /\ UNCHANGED <<murmur3_x64_128, filter, added>>

\* G = BloomFilter::from_u8_array(&f.get_u8_array(), f.hashes())
FromU8Array(f) ==
    /\ rebuilt' = from_u8_array(get_u8_array(filter[f]), filter[f].config.hashes)
    /\ op' = "from_u8_array"
    /\ ret' = "unit"
    /\ lossless' = FALSE /\ merged' = {} /\ both' = {}
    /\ UNCHANGED <<murmur3_x64_128, filter, added>>

\* G = BloomFilter::from_bit_vec(&f.get_bit_vec(), f.hashes())
FromBitVec(f) ==
    /\ rebuilt' = from_bit_vec(get_bit_vec(filter[f]), filter[f].config.hashes)
    /\ op' = "from_bit_vec"
    /\ ret' = "unit"
    /\ lossless' = FALSE /\ merged' = {} /\ both' = {}
    /\ UNCHANGED <<murmur3_x64_128, filter, added>>

Next ==
    \/ \E f \in FilterIds, e \in Elements : Add(f, e)
    \/ \E e \in Elements : Contains("A", e)
    \/ Clear("A")
    \/ \E i \in GetIndexes : Get("A", i)
    \/ \E i \in SetIndexes, to \in BOOLEAN : Set("A", i, to)
    \/ Union("A", "B")
    \/ Intersect("A", "B")
    \/ \E bv \in BitVecInputs : SetBitVec("A", bv)
    \/ IsEmpty("A")
    \/ FromU8Array("A")
    \/ FromBitVec("A")

Spec == Init /\ [][Next]_vars

\* ---- properties --------------------------------------------------------
Bits(f) == filter[f].bit_set
Config(f) == filter[f].config

\* C1: no false negatives.  Every element whose add completed on a filter
\* since the filter was built or last subjected to clear, set, intersect or
\* set_bit_vec is reported present by contains.
C1_NoFalseNegatives ==
    \A f \in FilterIds : \A e \in added[f] : contains(filter[f], e) = "true"

\* Both elements were added to A, the second one last, and A is not full.
C1_Witness ==
    /\ op = "add"
    /\ added["A"] = Elements
    /\ \E i \in 1..Len(Bits("A")) : ~Bits("A")[i]
    /\ Config("A").hashes > 1

\* C2: union returns true exactly when size and hashes of self and other are
\* identical, and then every bit of self becomes the or of the two bits; when
\* they differ it returns false and self is unchanged; other is unchanged.
C2_UnionContract ==
    [][op' = "union" =>
        LET s == filter["A"]
            o == filter["B"]
            same == s.config.size = o.config.size /\ s.config.hashes = o.config.hashes
        IN /\ (ret' = "true") <=> same
           /\ same =>
                /\ filter'["A"].config = s.config
                /\ Len(filter'["A"].bit_set) = Len(s.bit_set)
                /\ \A i \in 1..Len(s.bit_set) :
                      filter'["A"].bit_set[i] =
                          (s.bit_set[i] \/ (i <= Len(o.bit_set) /\ o.bit_set[i]))
           /\ ~same => ret' = "false" /\ filter'["A"] = s
           /\ filter'["B"] = o]_vars

\* C3: union is lossless.  After the union of two filters that each held
\* exactly what their adds put into an empty filter, self is bit for bit the
\* filter into which the elements of both were added directly, and contains
\* reports each of them present.
C3_UnionLossless ==
    lossless =>
        /\ Bits("A") = AddAll(new(Config("A")), merged).bit_set
        /\ \A x \in merged : contains(filter["A"], x) = "true"

\* A union of filters built over disjoint, non-empty element sets.
C3_Witness ==
    /\ lossless
    /\ op = "union" /\ ret = "true"
    /\ added["A"] # {} /\ added["B"] # {}
    /\ added["A"] \cap added["B"] = {}
    /\ \E e \in added["B"] : contains(AddAll(new(Config("A")), added["A"]), e) = "false"

\* C4: intersect returns true exactly when size and hashes of self and other
\* are identical, and then every bit of self becomes the and of the two bits;
\* when they differ it returns false and self is unchanged; other is unchanged.
C4_IntersectContract ==
    [][op' = "intersect" =>
        LET s == filter["A"]
            o == filter["B"]
            same == s.config.size = o.config.size /\ s.config.hashes = o.config.hashes
        IN /\ (ret' = "true") <=> same
           /\ same =>
                /\ filter'["A"].config = s.config
                /\ Len(filter'["A"].bit_set) = Len(s.bit_set)
                /\ \A i \in 1..Len(s.bit_set) :
                      filter'["A"].bit_set[i] =
                          (s.bit_set[i] /\ i <= Len(o.bit_set) /\ o.bit_set[i])
           /\ ~same => ret' = "false" /\ filter'["A"] = s
           /\ filter'["B"] = o]_vars

\* C5: intersection never underestimates.  Right after a successful
\* intersect, every element that had been added to both filters (and not
\* removed since) is reported present by self.
C5_IntersectKeepsCommon ==
    \A x \in both : contains(filter["A"], x) = "true"

\* An intersect that kept a common element and dropped another one of self.
C5_Witness ==
    /\ op = "intersect" /\ ret = "true"
    /\ both # {}
    /\ \E e \in Elements : contains(filter["A"], e) = "false"

\* C6: intersection monotonicity.  An element that self reports present after
\* a successful intersect was reported present by self and by other just
\* before it, and no intersect turns a bit from false to true.
C6_IntersectMonotonic ==
    [][op' = "intersect" =>
        /\ ret' = "true" =>
              \A x \in Elements :
                  contains(filter'["A"], x) = "true" =>
                      /\ contains(filter["A"], x) = "true"
                      /\ contains(filter["B"], x) = "true"
        /\ Len(filter'["A"].bit_set) = Len(Bits("A"))
        /\ \A i \in 1..Len(Bits("A")) : filter'["A"].bit_set[i] => Bits("A")[i]]_vars

\* A successful intersect after which self reports one element present and
\* the other one absent.
C6_Witness ==
    /\ op = "intersect" /\ ret = "true"
    /\ \E x, y \in Elements :
          contains(filter["A"], x) = "true" /\ contains(filter["A"], y) = "false"

\* C7: byte round trip.  The filter rebuilt from the bytes of F and the hash
\* count of F has the size of F and answers contains as F does, in particular
\* with true for every element added to F.
C7_ByteRoundTrip ==
    op = "from_u8_array" =>
        /\ rebuilt.config.size = Config("A").size
        /\ \A e \in Elements : contains(rebuilt, e) = contains(filter["A"], e)
        /\ \A e \in added["A"] : contains(rebuilt, e) = "true"

\* C8: bit-array round trip.  The filter rebuilt from the bit vector of F and
\* the hash count of F has the size, the hashes and the bits of F, answers
\* contains as F does and is compatible with F.
C8_BitVecRoundTrip ==
    op = "from_bit_vec" =>
        /\ rebuilt.config.size = Config("A").size
        /\ rebuilt.config.hashes = Config("A").hashes
        /\ rebuilt.bit_set = Bits("A")
        /\ \A e \in Elements : contains(rebuilt, e) = contains(filter["A"], e)
        /\ compatible(rebuilt, filter["A"])

\* C9: in every reachable state the bit array of a filter is config.size bits
\* long, and no operation changes the size or the hashes of a filter.
C9_LengthIsSize ==
    /\ [](/\ \A f \in FilterIds : Len(Bits(f)) = Config(f).size
          /\ Len(rebuilt.bit_set) = rebuilt.config.size)
    /\ [][\A f \in FilterIds : filter'[f].config = filter[f].config]_vars

\* C10: set_bit_vec replaces the bit array when the vector handed in is
\* config.size bits long, and fails leaving the bit array unchanged when it is
\* not.
C10_SetBitVecChecksLength ==
    [][\A bv \in BitVecInputs :
          SetBitVec("A", bv) =>
              IF Len(bv.bits) = Config("A").size
              THEN ret' = "unit" /\ filter'["A"].bit_set = bv.bits
              ELSE ret' = "panic" /\ filter'["A"].bit_set = Bits("A")]_vars

\* C11: in every reachable state is_empty() returns true if and only if no
\* bit of the bit array is set; it is true for a freshly built filter of size
\* > 0 and false after an add on such a filter.
C11_IsEmptyIffNoBitSet ==
    /\ \A f \in FilterIds :
          is_empty(filter[f]) <=> (\A i \in 1..Len(Bits(f)) : ~Bits(f)[i])
    /\ (op = "is_empty" =>
          (ret = "true" <=> (\A i \in 1..Len(Bits("A")) : ~Bits("A")[i])))

\* C12: after clear() is called on a filter that went through any sequence
\* of adds, is_empty() returns true and contains(e) returns false for every
\* element e added before.
C12_ClearResets ==
    [][op' = "clear" =>
          /\ is_empty(filter'["A"])
          /\ \A e \in added["A"] : contains(filter'["A"], e) = "false"]_vars

\* C13: clear() sets every bit to false and changes nothing else: the bit
\* array keeps its length and config.size and config.hashes are unchanged, so
\* add and contains work on the filter as they did before and the filter is
\* compatible with the same filters as before.
C13_ClearFrame ==
    /\ \A f \in FilterIds :
          LET r == clear(filter[f])
          IN /\ r.ret = "unit"
             /\ Len(r.self.bit_set) = Len(Bits(f))
             /\ \A i \in 1..Len(Bits(f)) : ~r.self.bit_set[i]
             /\ r.self.config = Config(f)
             /\ \A g \in FilterIds :
                   compatible(r.self, filter[g]) <=> compatible(filter[f], filter[g])
             /\ \A e \in Elements :
                   /\ add(filter[f], e).ret = "unit" => add(r.self, e).ret = "unit"
                   /\ contains(filter[f], e) # "panic" => contains(r.self, e) = "false"
    /\ (op = "clear" => ret = "unit" /\ \A i \in 1..Len(Bits("A")) : ~Bits("A")[i])

\* clear() has just run on "A", which is compatible with a filter "B" that
\* holds elements, and "A" takes a further element.
C13_Witness ==
    /\ op = "clear"
    /\ Len(Bits("A")) = 32
    /\ compatible(filter["A"], filter["B"])
    /\ added["B"] # {}
    /\ \E i \in 1..Len(Bits("B")) : Bits("B")[i]
    /\ \A e \in Elements : add(filter["A"], e).ret = "unit"

\* C14: for index < size, get(index) returns the current value of that bit
\* and set(index, v) changes only that bit, to v; for index >= size,
\* get(index) returns None without failing and without changing state, and
\* set(index, v) panics without changing any bit.
C14_DirectBitAccess ==
    /\ [](\A f \in FilterIds, i \in GetIndexes \cup SetIndexes :
            IF i < Config(f).size
            THEN /\ i < Len(Bits(f))
                 /\ get(filter[f], i) = (IF Bits(f)[i + 1] THEN "Some(true)" ELSE "Some(false)")
                 /\ \A v \in BOOLEAN :
                       LET r == set(filter[f], i, v)
                       IN /\ r.ret = "unit"
                          /\ r.self.config = Config(f)
                          /\ Len(r.self.bit_set) = Len(Bits(f))
                          /\ \A j \in 1..Len(Bits(f)) :
                                r.self.bit_set[j] = (IF j = i + 1 THEN v ELSE Bits(f)[j])
            ELSE /\ get(filter[f], i) = "None"
                 /\ \A v \in BOOLEAN :
                       LET r == set(filter[f], i, v)
                       IN r.ret = "panic" /\ r.self = filter[f])
    /\ [][op' = "get" => filter' = filter]_vars

\* Bit (7 - i mod 8) of byte floor(i/8) of a byte array.
BitOfByte(bytes, i) == (bytes[(i \div 8) + 1] \div (2 ^ (7 - (i % 8)))) % 2 = 1

\* C15: for every filter of size m, get_u8_array() returns exactly ceil(m/8)
\* bytes in which bit i of the filter is bit (7 - i mod 8) of byte floor(i/8)
\* and the unused trailing bits are 0; from_u8_array(bytes, k) gives a filter
\* of size 8 * bytes.length whose bit i is that bit of the input.
C15_BytePacking ==
    /\ \A f \in FilterIds :
          LET m == Config(f).size
              bytes == get_u8_array(filter[f])
          IN /\ Len(bytes) = (m + 7) \div 8
             /\ \A j \in 1..Len(bytes) : bytes[j] \in 0..255
             /\ \A i \in 0..(8 * Len(bytes) - 1) :
                   BitOfByte(bytes, i) = (i < m /\ Bits(f)[i + 1])
    /\ \A bytes \in ByteArrays \cup {get_u8_array(filter[f]) : f \in FilterIds} :
          \A k \in HashCounts :
             LET g == from_u8_array(bytes, k)
             IN /\ g.config = [size |-> 8 * Len(bytes), hashes |-> k]
                /\ Len(g.bit_set) = 8 * Len(bytes)
                /\ \A i \in 0..(8 * Len(bytes) - 1) :
                      g.bit_set[i + 1] = BitOfByte(bytes, i)
    /\ (op = "from_u8_array" =>
          rebuilt = from_u8_array(get_u8_array(filter["A"]), Config("A").hashes))

\* C16: add is idempotent: for any filter state and any element e, the state
\* after add(e); add(e) equals the state after a single add(e), and add(e) on
\* a state where contains(e) is already true leaves the bit array unchanged.
C16_AddIdempotent ==
    \A f \in FilterIds, e \in Elements :
       LET once == add(filter[f], e)
       IN /\ add(once.self, e).self = once.self
          /\ (contains(filter[f], e) = "true" => once.self = filter[f])

\* An add has just completed on "A", which now reports an element it holds,
\* does not report the other element, and has bits left unset.
C16_Witness ==
    /\ op = "add"
    /\ ret = "unit"
    /\ Config("A").hashes > 1
    /\ \E x \in added["A"], y \in Elements :
          /\ contains(filter["A"], x) = "true"
          /\ contains(filter["A"], y) = "false"
          /\ add(filter["A"], y).self # filter["A"]
    /\ \E i \in 1..Len(Bits("A")) : ~Bits("A")[i]

\* The probe set of an element in a filter of size m > 0 with k hashes:
\* {h1} and (h1 + i*h2) mod m for i = 1 .. k-1.
ProbeSet(self, e) ==
    LET m == self.config.size
        h1 == murmur3_x64_128[<<e, 0>>] % m
        h2 == murmur3_x64_128[<<e, 32>>] % m
    IN {h1} \cup {(h1 + i * h2) % m : i \in 1..(self.config.hashes - 1)}

\* C17: on a filter with size m > 0 and hashes k >= 1, add(e) sets to true
\* exactly the bits of the probe set of e, at most k positions, and leaves
\* every other bit and the configuration unchanged.
C17_AddSetsProbeSet ==
    \A f \in FilterIds, e \in Elements :
       (Config(f).size > 0 /\ Config(f).hashes >= 1) =>
          LET r == add(filter[f], e)
              P == ProbeSet(filter[f], e)
          IN /\ r.ret = "unit"
             /\ r.self.config = Config(f)
             /\ Len(r.self.bit_set) = Len(Bits(f))
             /\ Cardinality(P) <= Config(f).hashes
             /\ \A p \in P : p < Len(Bits(f))
             /\ \A j \in 1..Len(Bits(f)) :
                   r.self.bit_set[j] = (Bits(f)[j] \/ (j - 1) \in P)

\* Every bit of the probe set of e is true in the bit array, all probes looked
\* at, none skipped.
AllProbesSet(self, e) ==
    \A p \in ProbeSet(self, e) : p < Len(self.bit_set) /\ self.bit_set[p + 1]

\* C18: contains(e) returns true if and only if every bit of the probe set of
\* e is true; returning at the first unset bit never changes the result; and
\* contains never modifies the bit array or the configuration.
C18_ContainsIffProbeSet ==
    /\ [](\A f \in FilterIds, e \in Elements :
            Config(f).size > 0 =>
               contains(filter[f], e) =
                  (IF AllProbesSet(filter[f], e) THEN "true" ELSE "false"))
    /\ [][op' = "contains" => filter' = filter]_vars

\* C19: add and contains never fail on a reachable filter: on every filter
\* obtained from new, from_bit_vec or from_u8_array and any sequence of
\* operations, set_bit_vec included, every add(e) and contains(e) completes
\* without a panic.
C19_AddContainsNeverFail ==
    op \in {"add", "contains"} => ret # "panic"

\* Filter t holds every bit that filter s holds, in a bit array of the same
\* length, and reports every element that s reports.
Grows(s, t) ==
    /\ Len(t.bit_set) = Len(s.bit_set)
    /\ \A i \in 1..Len(s.bit_set) : s.bit_set[i] => t.bit_set[i]
    /\ \A e \in Elements : contains(s, e) = "true" => contains(t, e) = "true"

\* C20: along any sequence of add calls and union calls, accepted or
\* rejected, no bit of the filter goes from true to false, so once
\* contains(e) has returned true it returns true at every later point: each
\* add and each union leaves a filter that holds every bit held before.
C20_MonotonicGrowth ==
    /\ \A f \in FilterIds, e \in Elements : Grows(filter[f], add(filter[f], e).self)
    /\ \A f, g \in FilterIds : Grows(filter[f], union(filter[f], filter[g]).self)
    /\ (op \in {"add", "union"} =>
          \A f \in FilterIds : \A e \in added[f] : contains(filter[f], e) = "true")

\* A union has just merged into "A", which held elements of its own, the
\* bits of an element it did not report; "A" reports both now.
C20_Witness ==
    /\ op = "union"
    /\ ret = "true"
    /\ lossless
    /\ \E x \in added["A"], y \in added["B"] :
          /\ contains(new(Config("A")), x) = "false"
          /\ contains(AddAll(new(Config("A")), added["A"]), y) = "false"
          /\ contains(filter["A"], x) = "true"
          /\ contains(filter["A"], y) = "true"
    /\ \E i \in 1..Len(Bits("A")) : ~Bits("A")[i]

====
